---- MODULE Spec2Model ----
(***************************************************************************)
(* A model of nl (src/main.rs): the line-numbering filter.  Text is a      *)
(* sequence of one-character strings.  The configuration is chosen once,   *)
(* in Init, and never changes; number_lines then consumes one input line   *)
(* per step and appends one output line.                                   *)
(***************************************************************************)
EXTENDS Integers, Sequences, FiniteSets, TLC

\* ------------------------------------------------------------------ bounds
MaxLines == 3
MaxWidth == 2
MaxJoin == 2

\* Config::default().number_width
DefaultWidth == 6

\* ----------------------------------------------------------- text helpers
RECURSIVE Repeat(_, _)
\* " ".repeat(n) and the fill of a padded field: n copies of the character c
Repeat(c, n) == IF n <= 0 THEN <<>> ELSE <<c>> \o Repeat(c, n - 1)

DigitChars == <<"0", "1", "2", "3", "4", "5", "6", "7", "8", "9">>

RECURSIVE Digits(_)
\* the decimal digits of a natural number, most significant first
Digits(n) == IF n < 10 THEN <<DigitChars[n + 1]>>
             ELSE Digits(n \div 10) \o <<DigitChars[(n % 10) + 1]>>

\* Display of an i64: a minus sign for a negative number, then the digits
Display(num) == IF num < 0 THEN <<"-">> \o Digits(0 - num) ELSE Digits(num)

\* a slip: the zero fill put in front of the whole text, sign included
format_number_fill_first(num, width, format) ==
    LET text == Display(num)
        pad == width - Len(text)
    IN CASE format = "Left" -> text \o Repeat(" ", pad)
         [] format = "Right" -> Repeat(" ", pad) \o text
         [] format = "RightZero" -> Repeat("0", pad) \o text

\* ------------------------------------------------------------ format_number
format_number(num, width, format) ==
    LET text == Display(num)
        sign == IF num < 0 THEN <<"-">> ELSE <<>>
        digits == Digits(IF num < 0 THEN 0 - num ELSE num)
        pad == width - Len(text)
    IN CASE format = "Left" -> text \o Repeat(" ", pad)
         [] format = "Right" -> Repeat(" ", pad) \o text
         [] format = "RightZero" -> sign \o Repeat("0", pad) \o digits

\* ------------------------------------------------------------------- regex
\* Regex::is_match for the patterns built from literals, ".", "*", "^", "$"
\* and "|"
Drop(s, k) == SubSeq(s, k + 1, Len(s))

MatchChar(c, t) == c = "." \/ c = t

RECURSIVE MatchHere(_, _)
MatchHere(re, text) ==
    IF re = <<>> THEN TRUE
    ELSE IF Len(re) >= 2 /\ re[2] = "*"
         THEN \E k \in 0..Len(text) :
                 /\ \A i \in 1..k : MatchChar(re[1], text[i])
                 /\ MatchHere(Drop(re, 2), Drop(text, k))
    ELSE IF re = <<"$">> THEN text = <<>>
    ELSE /\ text # <<>>
         /\ MatchChar(re[1], text[1])
         /\ MatchHere(Tail(re), Tail(text))

\* one branch of an alternation: anchored by a leading "^", else tried at
\* every offset of the line
MatchBranch(re, line) ==
    IF re # <<>> /\ re[1] = "^" THEN MatchHere(Tail(re), line)
    ELSE \E k \in 0..Len(line) : MatchHere(re, Drop(line, k))

\* the offsets of the "|" of a pattern, with both ends
Bars(re) == {0, Len(re) + 1} \cup {k \in 1..Len(re) : re[k] = "|"}

\* the branches of a pattern: what lies between two neighbouring bars
Branches(re) ==
    { SubSeq(re, a + 1, b - 1) :
        <<a, b>> \in { ab \in Bars(re) \X Bars(re) :
                         /\ ab[1] < ab[2]
                         /\ \A k \in Bars(re) : ~(ab[1] < k /\ k < ab[2]) } }

is_match(re, line) == \E branch \in Branches(re) : MatchBranch(branch, line)

\* a slip: the pattern matched at the start of the line only
should_number_anchored(line, style) ==
    CASE style.kind = "All" -> TRUE
      [] style.kind = "NonEmpty" -> line # <<>>
      [] style.kind = "None" -> FALSE
      [] style.kind = "Pattern" ->
            \E branch \in Branches(style.re) :
                MatchHere(IF branch # <<>> /\ branch[1] = "^"
                          THEN Tail(branch) ELSE branch, line)

\* ----------------------------------------------------------- should_number
should_number(line, style) ==
    CASE style.kind = "All" -> TRUE
      [] style.kind = "NonEmpty" -> line # <<>>
      [] style.kind = "None" -> FALSE
      [] style.kind = "Pattern" -> is_match(style.re, line)

\* a slip: the header built from two pairs
section_delimiters_short(delim) ==
    LET pair == <<delim[1], delim[2]>>
    IN [header |-> pair \o pair, body |-> pair \o pair, footer |-> pair]

\* ------------------------------------------------------ section_delimiters
section_delimiters(delim) ==
    LET pair == <<delim[1], delim[2]>>
    IN [header |-> pair \o pair \o pair, body |-> pair \o pair, footer |-> pair]

\* ------------------------------------------------------------ configuration
Patterns == { <<"^", "$", "|", "#">> }

Styles == { [kind |-> "All", re |-> <<>>],
            [kind |-> "NonEmpty", re |-> <<>>],
            [kind |-> "None", re |-> <<>>] }
          \cup { [kind |-> "Pattern", re |-> p] : p \in Patterns }

Formats == {"Left", "Right", "RightZero"}

\* -v START with -i INCREMENT: an ascending count from a negative start and
\* a descending one that passes zero
Counts == { [start |-> -1, increment |-> 2], [start |-> 2, increment |-> -1] }

Separators == { <<"\t">>, <<":", " ">> }

\* Config::default()
DefaultConfig ==
    [ header_style |-> [kind |-> "None", re |-> <<>>],
      body_style |-> [kind |-> "NonEmpty", re |-> <<>>],
      footer_style |-> [kind |-> "None", re |-> <<>>],
      number_format |-> "Right",
      number_width |-> DefaultWidth,
      separator |-> <<"\t">>,
      start_number |-> 1,
      increment |-> 1,
      join_blank |-> 1,
      no_renumber |-> FALSE,
      section_delimiter |-> <<"\\", ":">> ]

\* the configurations parse_args builds by overriding the numbering options
\* (-h -b -f -v -i -l -p) of the default
NumberingConfigs ==
    { [DefaultConfig EXCEPT !.header_style = h, !.body_style = b,
                            !.footer_style = f, !.start_number = c.start,
                            !.increment = c.increment, !.join_blank = l,
                            !.no_renumber = p] :
        h \in Styles, b \in Styles, f \in Styles, c \in Counts,
        l \in 1..MaxJoin, p \in BOOLEAN }

\* ... and by overriding the rendering options (-n -w -s) and the body style
RenderingConfigs ==
    { [DefaultConfig EXCEPT !.body_style = b, !.number_format = n,
                            !.number_width = w, !.separator = s] :
        b \in Styles, n \in Formats, w \in 1..MaxWidth, s \in Separators }

Config == {DefaultConfig} \cup NumberingConfigs \cup RenderingConfigs

\* the lines an input stream is made of
InputLines(c) ==
    LET d == section_delimiters(c.section_delimiter)
    IN { <<>>, <<"a">>, <<"a", "#">>, d.header, d.body, d.footer }

\* -------------------------------------------------------------------- state
\* config, line_number, current_section, blank_count: the locals of
\* number_lines.  input: the lines read so far; output: the lines written so
\* far.  decisions[i] is do_number for line i (FALSE for a delimiter line),
\* counters[i] is line_number after line i.  fmt_call, fmt_result: one call
\* of format_number and what it returned.  io: the output path beneath
\* number_lines (the BufWriter, standard output, the exit of main).  cli:
\* parse_args at work.  probe: one line compared with the delimiters of one
\* base.  earlier: the input and output of an earlier run of number_lines
\* under the same configuration.
VARIABLES config, line_number, current_section, blank_count,
          input, output, decisions, counters, fmt_call, fmt_result,
          io, cli, probe, earlier

vars == <<config, line_number, current_section, blank_count,
          input, output, decisions, counters, fmt_call, fmt_result,
          io, cli, probe, earlier>>

\* the locals of number_lines and the history of its stream
lineVars == <<config, line_number, current_section, blank_count,
              input, output, decisions, counters>>

\* the values of the variables a specification leaves aside
NoIO == [pc |-> "idle"]

NoCli == [pc |-> "idle"]

NoProbe == [pc |-> "idle"]

NoRun == [pc |-> "idle"]

NoCall == [num |-> 0, width |-> 1, format |-> "Right"]

Init ==
    /\ config \in Config
    /\ line_number = config.start_number
    /\ current_section = "Body"
    /\ blank_count = 0
    /\ input = <<>>
    /\ output = <<>>
    /\ decisions = <<>>
    /\ counters = <<>>
    /\ fmt_call = NoCall
    /\ fmt_result = <<>>
    /\ io = NoIO
    /\ cli = NoCli
    /\ probe = NoProbe
    /\ earlier = NoRun

header_delim == section_delimiters(config.section_delimiter).header

body_delim == section_delimiters(config.section_delimiter).body

footer_delim == section_delimiters(config.section_delimiter).footer

\* the style of a section
SectionStyle(section) ==
    CASE section = "Header" -> config.header_style
      [] section = "Body" -> config.body_style
      [] section = "Footer" -> config.footer_style

\* a slip: the counter never reset
AfterDelimiterKept == line_number

\* a slip: the counter reset whatever no_renumber says
AfterDelimiterReset == config.start_number

\* line_number after a section delimiter
AfterDelimiter ==
    IF ~config.no_renumber THEN config.start_number ELSE line_number

\* a slip: the delimiter line consumed without writing a line
TransitionSilent(line, section) ==
    /\ current_section' = section
    /\ line_number' = IF ~config.no_renumber THEN config.start_number ELSE line_number
    /\ blank_count' = 0
    /\ input' = Append(input, line)
    /\ output' = output
    /\ decisions' = Append(decisions, FALSE)
    /\ counters' = Append(counters, line_number')
    /\ UNCHANGED <<config, fmt_call, fmt_result, io, cli, probe, earlier>>

\* a slip: the delimiter line written like an unnumbered line
TransitionEchoed(line, section) ==
    /\ current_section' = section
    /\ line_number' = IF ~config.no_renumber THEN config.start_number ELSE line_number
    /\ blank_count' = 0
    /\ input' = Append(input, line)
    /\ output' = Append(output, Repeat(" ", config.number_width) \o line)
    /\ decisions' = Append(decisions, FALSE)
    /\ counters' = Append(counters, line_number')
    /\ UNCHANGED <<config, fmt_call, fmt_result, io, cli, probe, earlier>>

\* a slip: the delimiter line does everything but switch the section
TransitionStays(line, section) ==
    /\ current_section' = current_section
    /\ line_number' = IF ~config.no_renumber THEN config.start_number ELSE line_number
    /\ blank_count' = 0
    /\ input' = Append(input, line)
    /\ output' = Append(output, <<>>)
    /\ decisions' = Append(decisions, FALSE)
    /\ counters' = Append(counters, line_number')
    /\ UNCHANGED <<config, fmt_call, fmt_result, io, cli, probe, earlier>>

\* a slip: the delimiter line leaves blank_count alone
TransitionKeepsBlanks(line, section) ==
    /\ current_section' = section
    /\ line_number' = IF ~config.no_renumber THEN config.start_number ELSE line_number
    /\ blank_count' = blank_count
    /\ input' = Append(input, line)
    /\ output' = Append(output, <<>>)
    /\ decisions' = Append(decisions, FALSE)
    /\ counters' = Append(counters, line_number')
    /\ UNCHANGED <<config, fmt_call, fmt_result, io, cli, probe, earlier>>

\* a slip: a delimiter line takes back the line written before it
TransitionRetracts(line, section) ==
    /\ current_section' = section
    /\ line_number' = IF ~config.no_renumber THEN config.start_number ELSE line_number
    /\ blank_count' = 0
    /\ input' = Append(input, line)
    /\ output' = Append([k \in 1..Len(output) |->
                            IF k = Len(output) THEN <<>> ELSE output[k]], <<>>)
    /\ decisions' = Append(decisions, FALSE)
    /\ counters' = Append(counters, line_number')
    /\ UNCHANGED <<config, fmt_call, fmt_result, io, cli, probe, earlier>>

\* a delimiter line: switch section, reset unless suppressed, write an
\* empty line
Transition(line, section) ==
    /\ current_section' = section
    /\ line_number' = AfterDelimiter
    /\ blank_count' = 0
    /\ input' = Append(input, line)
    /\ output' = Append(output, <<>>)
    /\ decisions' = Append(decisions, FALSE)
    /\ counters' = Append(counters, line_number')
    /\ UNCHANGED <<config, fmt_call, fmt_result, io, cli, probe, earlier>>

\* a slip: > for >=
BlankNumberedLate(style, count) ==
    style.kind = "All" /\ count > config.join_blank

\* a blank line is numbered when blank_count, already incremented, has
\* reached join_blank under style All
BlankNumbered(style, count) ==
    style.kind = "All" /\ count >= config.join_blank

\* a slip: the grouping applied under All only, an empty line under another
\* style left to the style
do_number_by_style(line, style) ==
    IF line = <<>> /\ style.kind = "All"
    THEN style.kind = "All" /\ blank_count + 1 >= config.join_blank
    ELSE should_number(line, style)

do_number(line, style) ==
    IF line = <<>> THEN BlankNumbered(style, blank_count + 1)
    ELSE should_number(line, style)

NextBlankCount(line, style) ==
    IF line = <<>>
    THEN IF BlankNumbered(style, blank_count + 1) THEN 0 ELSE blank_count + 1
    ELSE 0

\* writeln!(out, "{}{}{}", num, config.separator, line)
NumberedOutput(line) ==
    format_number(line_number, config.number_width, config.number_format)
        \o config.separator \o line

\* a slip: the separator written on the unnumbered path too
PlainOutputSeparated(line) ==
    Repeat(" ", config.number_width) \o config.separator \o line

\* writeln!(out, "{}{}", " ".repeat(config.number_width), line)
PlainOutput(line) == Repeat(" ", config.number_width) \o line

\* a slip: the counter advanced by one
AdvanceByOne == line_number + 1

\* a slip: the counter advanced from the start number
AdvanceFromStart == config.start_number + config.increment

\* line_number += config.increment
Advance == line_number + config.increment

\* buf.lines() yields another line
ReadLine(line) == Len(input) < MaxLines /\ line \in InputLines(config)

HeaderLine ==
    \E line \in InputLines(config) :
        /\ ReadLine(line)
        /\ line = header_delim
        /\ Transition(line, "Header")

BodyLine ==
    \E line \in InputLines(config) :
        /\ ReadLine(line)
        /\ line # header_delim
        /\ line = body_delim
        /\ Transition(line, "Body")

FooterLine ==
    \E line \in InputLines(config) :
        /\ ReadLine(line)
        /\ line # header_delim
        /\ line # body_delim
        /\ line = footer_delim
        /\ Transition(line, "Footer")

TextLine ==
    \E line \in InputLines(config) :
        /\ ReadLine(line)
        /\ line # header_delim
        /\ line # body_delim
        /\ line # footer_delim
        /\ LET style == SectionStyle(current_section)
           IN /\ blank_count' = NextBlankCount(line, style)
              /\ decisions' = Append(decisions, do_number(line, style))
              /\ IF do_number(line, style)
                 THEN /\ output' = Append(output, NumberedOutput(line))
                      /\ line_number' = Advance
                 ELSE /\ output' = Append(output, PlainOutput(line))
                      /\ line_number' = line_number
        /\ input' = Append(input, line)
        /\ counters' = Append(counters, line_number')
        /\ UNCHANGED <<config, current_section, fmt_call, fmt_result,
                       io, cli, probe, earlier>>

Next == HeaderLine \/ BodyLine \/ FooterLine \/ TextLine

Spec == Init /\ [][Next]_vars

\* ------------------------------------------------- format_number on its own
MaxNum == 12
MaxFmtWidth == 4

FmtCalls == [num : (0 - MaxNum)..MaxNum, width : 1..MaxFmtWidth, format : Formats]

FmtInit ==
    /\ config = DefaultConfig
    /\ line_number = config.start_number
    /\ current_section = "Body"
    /\ blank_count = 0
    /\ input = <<>>
    /\ output = <<>>
    /\ decisions = <<>>
    /\ counters = <<>>
    /\ fmt_call \in FmtCalls
    /\ fmt_result = <<>>
    /\ io = NoIO
    /\ cli = NoCli
    /\ probe = NoProbe
    /\ earlier = NoRun

FormatCall ==
    /\ fmt_result = <<>>
    /\ fmt_result' = format_number(fmt_call.num, fmt_call.width, fmt_call.format)
    /\ UNCHANGED <<lineVars, fmt_call, io, cli, probe, earlier>>

FmtNext == FormatCall

SpecFmt == FmtInit /\ [][FmtNext]_vars

\* ------------------------------------------ the output path and the exit
\* number_lines writes every line into a BufWriter around standard output;
\* main turns the io::Result of number_lines into the exit status.  Here a
\* line is one writeln!, whatever its text.
MaxWrites == 6

\* the lines the BufWriter holds before a write makes it flush (its 8 KiB)
BufCapacity == 2

\* what a write to standard output meets: it is taken, or it fails with
\* ErrorKind::BrokenPipe, or with another kind (ENOSPC, EIO)
SinkStates == {"open", "BrokenPipe", "Other"}

IOStart ==
    [ pc |-> "loop", buffered |-> 0, written |-> 0, delivered |-> 0,
      sink |-> "open", result |-> "none", failed |-> "none",
      read_failed |-> FALSE, status |-> -1, diagnostic |-> FALSE ]

\* BufWriter::flush_buf: the buffered lines go to standard output, or the
\* write fails and they stay
Flushed(r) ==
    IF r.sink = "open"
    THEN [r EXCEPT !.delivered = r.delivered + r.buffered, !.buffered = 0]
    ELSE [r EXCEPT !.failed = IF r.failed = "none" THEN r.sink ELSE r.failed]

\* `out` goes out of scope: the BufWriter flushes what it holds and drops
\* the error, if any
Dropped(r) == IF r.buffered = 0 THEN r ELSE Flushed(r)

IOInit ==
    /\ config = DefaultConfig
    /\ line_number = config.start_number
    /\ current_section = "Body"
    /\ blank_count = 0
    /\ input = <<>>
    /\ output = <<>>
    /\ decisions = <<>>
    /\ counters = <<>>
    /\ fmt_call = NoCall
    /\ fmt_result = <<>>
    /\ io = IOStart
    /\ cli = NoCli
    /\ probe = NoProbe
    /\ earlier = NoRun

IOFrame == UNCHANGED <<lineVars, fmt_call, fmt_result, cli, probe, earlier>>

\* writeln!(out, ...)? with room in the buffer
WriteBuffered ==
    /\ io.pc = "loop"
    /\ io.written < MaxWrites
    /\ io.buffered < BufCapacity
    /\ io' = [io EXCEPT !.buffered = @ + 1, !.written = @ + 1]
    /\ IOFrame

\* writeln!(out, ...)? with the buffer full: the buffer is flushed first; a
\* failure of that write is the Err that `?` returns
WriteFlushing ==
    /\ io.pc = "loop"
    /\ io.written < MaxWrites
    /\ io.buffered = BufCapacity
    /\ io' = IF io.sink = "open"
             THEN [Flushed(io) EXCEPT !.buffered = 1, !.written = @ + 1]
             ELSE [Dropped(Flushed(io)) EXCEPT !.result = io.sink, !.pc = "returned"]
    /\ IOFrame

\* let line = line?; the read fails
ReadFails ==
    /\ io.pc = "loop"
    /\ io' = [Dropped(io) EXCEPT !.result = "Other", !.read_failed = TRUE,
                                 !.pc = "returned"]
    /\ IOFrame

\* the stream ends: Ok(())
EndOfStream ==
    /\ io.pc = "loop"
    /\ io' = [Dropped(io) EXCEPT !.result = "Ok", !.pc = "returned"]
    /\ IOFrame

\* main: an Err whose kind is not BrokenPipe is reported and exits with 1;
\* otherwise main returns
MainExits ==
    /\ io.pc = "returned"
    /\ io' = IF io.result \notin {"Ok", "BrokenPipe"}
             THEN [io EXCEPT !.diagnostic = TRUE, !.status = 1, !.pc = "exited"]
             ELSE [io EXCEPT !.status = 0, !.pc = "exited"]
    /\ IOFrame

\* the reader of standard output goes away, or the device fills up
SinkFails ==
    /\ io.pc = "loop"
    /\ io.sink = "open"
    /\ \E kind \in SinkStates \ {"open"} : io' = [io EXCEPT !.sink = kind]
    /\ IOFrame

IONext ==
    WriteBuffered \/ WriteFlushing \/ ReadFails \/ EndOfStream \/ MainExits
        \/ SinkFails

SpecIO == IOInit /\ [][IONext]_vars

\* ------------------------------------- a line against the delimiters
\* One line compared with the three delimiters of one base, as the loop of
\* number_lines compares it.
MaxProbeLen == 6

DelimChars == {"\\", ":", "a"}

Sections == {"Header", "Body", "Footer"}

\* every text of at most n characters of S
TextsUpTo(S, n) == UNION { [1..k -> S] : k \in 0..n }

DelimiterOf(d, section) ==
    CASE section = "Header" -> d.header
      [] section = "Body" -> d.body
      [] section = "Footer" -> d.footer

\* the section of the first delimiter, in the order given, that the line
\* equals; "Text" if it equals none
FirstMatch(line, d, order) ==
    IF line = DelimiterOf(d, order[1]) THEN order[1]
    ELSE IF line = DelimiterOf(d, order[2]) THEN order[2]
    ELSE IF line = DelimiterOf(d, order[3]) THEN order[3]
    ELSE "Text"

\* the order of the three `if line == ..._delim` of number_lines
CodeOrder == <<"Header", "Body", "Footer">>

DelimInit ==
    /\ config = DefaultConfig
    /\ line_number = config.start_number
    /\ current_section = "Body"
    /\ blank_count = 0
    /\ input = <<>>
    /\ output = <<>>
    /\ decisions = <<>>
    /\ counters = <<>>
    /\ fmt_call = NoCall
    /\ fmt_result = <<>>
    /\ io = NoIO
    /\ cli = NoCli
    /\ probe \in [ pc : {"ask"}, base : DelimChars \X DelimChars,
                   line : TextsUpTo(DelimChars, MaxProbeLen), section : {"none"} ]
    /\ earlier = NoRun

Compare ==
    /\ probe.pc = "ask"
    /\ probe' = [probe EXCEPT
                   !.section = FirstMatch(probe.line, section_delimiters(probe.base),
                                          CodeOrder),
                   !.pc = "done"]
    /\ UNCHANGED <<lineVars, fmt_call, fmt_result, io, cli, earlier>>

DelimNext == Compare

SpecDelim == DelimInit /\ [][DelimNext]_vars

\* ------------------------------------------ two streams, one configuration
\* number_lines run on one stream and then, with fresh locals, on a second
\* stream under the same configuration.  The second stream follows the
\* first one up to the first line in which it differs; what would come
\* after that line is left out.
PairConfigs ==
    { [DefaultConfig EXCEPT !.header_style = [kind |-> "All", re |-> <<>>],
                            !.body_style = b, !.join_blank = l,
                            !.no_renumber = p] :
        b \in Styles, l \in 1..MaxJoin, p \in BOOLEAN }

IsPrefix(s, t) == Len(s) <= Len(t) /\ SubSeq(t, 1, Len(s)) = s

PairInit ==
    /\ config \in PairConfigs
    /\ line_number = config.start_number
    /\ current_section = "Body"
    /\ blank_count = 0
    /\ input = <<>>
    /\ output = <<>>
    /\ decisions = <<>>
    /\ counters = <<>>
    /\ fmt_call = NoCall
    /\ fmt_result = <<>>
    /\ io = NoIO
    /\ cli = NoCli
    /\ probe = NoProbe
    /\ earlier = [pc |-> "first"]

\* one line of the stream at hand
PairLine ==
    /\ earlier.pc = "second" => IsPrefix(input, earlier.input)
    /\ (HeaderLine \/ BodyLine \/ FooterLine \/ TextLine)

\* the first stream is put aside and number_lines starts on the second
SecondRun ==
    /\ earlier.pc = "first"
    /\ earlier' = [pc |-> "second", input |-> input, output |-> output]
    /\ line_number' = config.start_number
    /\ current_section' = "Body"
    /\ blank_count' = 0
    /\ input' = <<>>
    /\ output' = <<>>
    /\ decisions' = <<>>
    /\ counters' = <<>>
    /\ UNCHANGED <<config, fmt_call, fmt_result, io, cli, probe>>

PairNext == PairLine \/ SecondRun

SpecPair == PairInit /\ [][PairNext]_vars

\* ------------------------------------------------------ the command line
\* parse_args walks the arguments from left to right; main then opens the
\* input and number_lines reads it.  cli.args: the arguments after the
\* program name; cli.i: the position of the argument at hand, counted from
\* one; cli.file: Config.file; cli.status: the exit status, -1 while the
\* process runs; cli.error: the kind of the diagnostic written, if any.
MaxArgs == 2
MaxRunLines == 2

Tokens ==
    { <<"-", "-", "h", "e", "l", "p">>, <<"-", "p">>, <<"-", "b">>, <<"-", "f">>,
      <<"-", "h">>, <<"-", "d">>, <<"-", "n">>, <<"-", "s">>,
      <<"-", "w">>, <<"-", "v">>, <<"-", "i">>, <<"-", "l">>,
      <<"a">>, <<"p", "*">>, <<"0">>, <<"2">>,
      <<"-", "1">>, <<"r", "z">>, <<"a", "b", "c">>, <<"-", "b", "t">>,
      <<"-", "f", "a">>, <<"-", "h", "p", "*">>, <<"-", "n", "r", "z">>, <<"-", "f", "o">>,
      <<"-">> }

RECURSIVE ArgLists(_)
ArgLists(n) ==
    IF n = 0 THEN { <<>> }
    ELSE ArgLists(n - 1) \cup
         { Append(a, t) : a \in { b \in ArgLists(n - 1) : Len(b) = n - 1 },
                          t \in Tokens }

ConfigErrors ==
    { "style", "regex", "delimiter", "format", "width", "start", "increment",
      "join", "missing", "option" }

starts_with(s, prefix) == IsPrefix(prefix, s)

\* Regex::new on the syntax of is_match: a star with nothing to repeat, at
\* the head of the pattern or of an alternative, does not compile
RegexNew(pattern) ==
    \A k \in 1..Len(pattern) :
        pattern[k] = "*" => k > 1 /\ pattern[k - 1] # "|"

IsDigit(c) == \E k \in 1..10 : DigitChars[k] = c

DigitValue(c) == (CHOOSE k \in 1..10 : DigitChars[k] = c) - 1

RECURSIVE NatOf(_)
NatOf(ds) ==
    IF ds = <<>> THEN 0
    ELSE NatOf(SubSeq(ds, 1, Len(ds) - 1)) * 10 + DigitValue(ds[Len(ds)])

AllDigits(ds) == ds # <<>> /\ \A k \in 1..Len(ds) : IsDigit(ds[k])

\* str::parse::<i64>: an optional sign, then decimal digits
parse_i64(val) ==
    LET signed == val # <<>> /\ Head(val) \in {"-", "+"}
        ds == IF signed THEN Tail(val) ELSE val
    IN IF ~AllDigits(ds) THEN [ok |-> FALSE, value |-> 0]
       ELSE [ok |-> TRUE,
             value |-> IF Head(val) = "-" THEN 0 - NatOf(ds) ELSE NatOf(ds)]

\* str::parse::<usize>: an optional plus sign, then decimal digits
parse_usize(val) ==
    LET signed == val # <<>> /\ Head(val) = "+"
        ds == IF signed THEN Tail(val) ELSE val
    IN IF ~AllDigits(ds) THEN [ok |-> FALSE, value |-> 0]
       ELSE [ok |-> TRUE, value |-> NatOf(ds)]

\* a slip: zero passes for a width or a grouping factor
positive_or_zero(r) == r.ok

\* Ok(w) if w > 0
positive(r) == r.ok /\ r.value > 0

parse_style(value) ==
    CASE value = <<"a">> ->
           [ok |-> TRUE, style |-> [kind |-> "All", re |-> <<>>], error |-> ""]
      [] value = <<"t">> ->
           [ok |-> TRUE, style |-> [kind |-> "NonEmpty", re |-> <<>>], error |-> ""]
      [] value = <<"n">> ->
           [ok |-> TRUE, style |-> [kind |-> "None", re |-> <<>>], error |-> ""]
      [] OTHER ->
           IF starts_with(value, <<"p">>)
           THEN IF RegexNew(Tail(value))
                THEN [ok |-> TRUE, style |-> [kind |-> "Pattern", re |-> Tail(value)],
                      error |-> ""]
                ELSE [ok |-> FALSE, style |-> [kind |-> "None", re |-> <<>>],
                      error |-> "regex"]
           ELSE [ok |-> FALSE, style |-> [kind |-> "None", re |-> <<>>],
                 error |-> "style"]

parse_format(value) ==
    CASE value = <<"l", "n">> -> [ok |-> TRUE, format |-> "Left"]
      [] value = <<"r", "n">> -> [ok |-> TRUE, format |-> "Right"]
      [] value = <<"r", "z">> -> [ok |-> TRUE, format |-> "RightZero"]
      [] OTHER -> [ok |-> FALSE, format |-> "Right"]

ArgsStart(args) ==
    [pc |-> "parse", args |-> args, i |-> 1, file |-> <<>>, named |-> FALSE,
     status |-> -1, error |-> ""]

ArgsInit ==
    /\ config = DefaultConfig
    /\ line_number = DefaultConfig.start_number
    /\ current_section = "Body"
    /\ blank_count = 0
    /\ input = <<>>
    /\ output = <<>>
    /\ decisions = <<>>
    /\ counters = <<>>
    /\ fmt_call = NoCall
    /\ fmt_result = <<>>
    /\ io = NoIO
    /\ cli \in { ArgsStart(a) : a \in ArgLists(MaxArgs) }
    /\ probe = NoProbe
    /\ earlier = NoRun

ArgsFrame ==
    UNCHANGED <<line_number, current_section, blank_count, input, output,
                decisions, counters, fmt_call, fmt_result, io, probe, earlier>>

\* the while loop is at an argument
Parsing == cli.pc = "parse" /\ cli.i <= Len(cli.args)

Arg == cli.args[cli.i]

\* require_arg finds a value behind the option
HasValue == cli.i + 1 <= Len(cli.args)

Value == cli.args[cli.i + 1]

\* eprintln! and process::exit(1)
Exit1(kind) ==
    /\ cli' = [cli EXCEPT !.pc = "exit", !.status = 1, !.error = kind]
    /\ UNCHANGED config

\* the arm is done and i += 1; n arguments were taken
Taken(n) == cli' = [cli EXCEPT !.i = @ + n]

OptHelp ==
    /\ Parsing /\ Arg = <<"-", "-", "h", "e", "l", "p">>
    /\ cli' = [cli EXCEPT !.pc = "exit", !.status = 0]
    /\ UNCHANGED config
    /\ ArgsFrame

OptP ==
    /\ Parsing /\ Arg = <<"-", "p">>
    /\ config' = [config EXCEPT !.no_renumber = TRUE]
    /\ Taken(1)
    /\ ArgsFrame

\* -b, -f, -h with the style in the next argument
StyleOption(letter, field) ==
    /\ Parsing /\ Arg = <<"-", letter>>
    /\ IF ~HasValue THEN Exit1("missing")
       ELSE LET r == parse_style(Value)
            IN IF r.ok THEN config' = [config EXCEPT ![field] = r.style] /\ Taken(2)
               ELSE Exit1(r.error)
    /\ ArgsFrame

OptB == StyleOption("b", "body_style")

OptF == StyleOption("f", "footer_style")

OptH == StyleOption("h", "header_style")

OptD ==
    /\ Parsing /\ Arg = <<"-", "d">>
    /\ IF ~HasValue THEN Exit1("missing")
       ELSE CASE Len(Value) = 1 ->
                   /\ config' = [config EXCEPT !.section_delimiter = <<Value[1], ":">>]
                   /\ Taken(2)
              [] Len(Value) = 2 ->
                   /\ config' = [config EXCEPT !.section_delimiter = Value]
                   /\ Taken(2)
              [] OTHER -> Exit1("delimiter")
    /\ ArgsFrame

OptN ==
    /\ Parsing /\ Arg = <<"-", "n">>
    /\ IF ~HasValue THEN Exit1("missing")
       ELSE LET r == parse_format(Value)
            IN IF r.ok THEN config' = [config EXCEPT !.number_format = r.format] /\ Taken(2)
               ELSE Exit1("format")
    /\ ArgsFrame

OptS ==
    /\ Parsing /\ Arg = <<"-", "s">>
    /\ IF ~HasValue THEN Exit1("missing")
       ELSE config' = [config EXCEPT !.separator = Value] /\ Taken(2)
    /\ ArgsFrame

OptW ==
    /\ Parsing /\ Arg = <<"-", "w">>
    /\ IF ~HasValue THEN Exit1("missing")
       ELSE LET r == parse_usize(Value)
            IN IF positive(r) THEN config' = [config EXCEPT !.number_width = r.value] /\ Taken(2)
               ELSE Exit1("width")
    /\ ArgsFrame

OptV ==
    /\ Parsing /\ Arg = <<"-", "v">>
    /\ IF ~HasValue THEN Exit1("missing")
       ELSE LET r == parse_i64(Value)
            IN IF r.ok THEN config' = [config EXCEPT !.start_number = r.value] /\ Taken(2)
               ELSE Exit1("start")
    /\ ArgsFrame

OptI ==
    /\ Parsing /\ Arg = <<"-", "i">>
    /\ IF ~HasValue THEN Exit1("missing")
       ELSE LET r == parse_i64(Value)
            IN IF r.ok THEN config' = [config EXCEPT !.increment = r.value] /\ Taken(2)
               ELSE Exit1("increment")
    /\ ArgsFrame

OptL ==
    /\ Parsing /\ Arg = <<"-", "l">>
    /\ IF ~HasValue THEN Exit1("missing")
       ELSE LET r == parse_usize(Value)
            IN IF positive(r) THEN config' = [config EXCEPT !.join_blank = r.value] /\ Taken(2)
               ELSE Exit1("join")
    /\ ArgsFrame

\* the arms with a guard are tried in this order once no literal arm matched
IsCombinedB == starts_with(Arg, <<"-", "b">>) /\ Len(Arg) > 2

IsCombinedF ==
    /\ ~IsCombinedB
    /\ starts_with(Arg, <<"-", "f">>) /\ Len(Arg) > 2
    /\ ~starts_with(Arg, <<"-", "f", "o">>)

IsCombinedH ==
    /\ ~IsCombinedB /\ ~IsCombinedF
    /\ starts_with(Arg, <<"-", "h">>) /\ Len(Arg) > 2
    /\ ~starts_with(Arg, <<"-", "h", "e">>)

IsCombinedN ==
    /\ ~IsCombinedB /\ ~IsCombinedF /\ ~IsCombinedH
    /\ starts_with(Arg, <<"-", "n">>) /\ Len(Arg) > 2

IsLiteral ==
    \/ Arg = <<"-", "-", "h", "e", "l", "p">>
    \/ \E o \in {"p", "b", "f", "h", "d", "n", "s", "w", "v", "i", "l"} : Arg = <<"-", o>>

IsFile ==
    /\ ~IsLiteral
    /\ ~IsCombinedB /\ ~IsCombinedF /\ ~IsCombinedH /\ ~IsCombinedN
    /\ (~starts_with(Arg, <<"-">>) \/ Arg = <<"-">>)

\* -bX, -fX, -hX: the style follows the letter in the same argument
CombinedStyle(test, field) ==
    /\ Parsing /\ ~IsLiteral /\ test
    /\ LET r == parse_style(SubSeq(Arg, 3, Len(Arg)))
       IN IF r.ok THEN config' = [config EXCEPT ![field] = r.style] /\ Taken(1)
          ELSE Exit1(r.error)
    /\ ArgsFrame

CombinedB == CombinedStyle(IsCombinedB, "body_style")

CombinedF == CombinedStyle(IsCombinedF, "footer_style")

CombinedH == CombinedStyle(IsCombinedH, "header_style")

CombinedN ==
    /\ Parsing /\ ~IsLiteral /\ IsCombinedN
    /\ LET r == parse_format(SubSeq(Arg, 3, Len(Arg)))
       IN IF r.ok THEN config' = [config EXCEPT !.number_format = r.format] /\ Taken(1)
          ELSE Exit1("format")
    /\ ArgsFrame

FileArg ==
    /\ Parsing /\ IsFile
    /\ cli' = [cli EXCEPT !.i = @ + 1,
                          !.named = (Arg # <<"-">>),
                          !.file = IF Arg = <<"-">> THEN <<>> ELSE Arg]
    /\ UNCHANGED config
    /\ ArgsFrame

InvalidOption ==
    /\ Parsing /\ ~IsLiteral /\ ~IsFile
    /\ ~IsCombinedB /\ ~IsCombinedF /\ ~IsCombinedH /\ ~IsCombinedN
    /\ Exit1("option")
    /\ ArgsFrame

\* parse_args returns; main opens the named file, if any, and number_lines
\* sets its locals, or the file cannot be opened and main exits with 1
Main ==
    /\ cli.pc = "parse" /\ cli.i > Len(cli.args)
    /\ \E opened \in BOOLEAN :
          IF opened \/ ~cli.named
          THEN /\ cli' = [cli EXCEPT !.pc = "run"]
               /\ line_number' = config.start_number
               /\ current_section' = "Body"
               /\ blank_count' = 0
          ELSE /\ cli' = [cli EXCEPT !.pc = "exit", !.status = 1, !.error = "open"]
               /\ UNCHANGED <<line_number, current_section, blank_count>>
    /\ UNCHANGED <<config, input, output, decisions, counters, fmt_call,
                   fmt_result, io, probe, earlier>>

\* one line of the input, under the configuration parse_args returned
ArgsLine ==
    /\ cli.pc = "run"
    /\ Len(input) < MaxRunLines
    /\ (HeaderLine \/ BodyLine \/ FooterLine \/ TextLine)

\* the stream ends, number_lines returns Ok and main falls off its end
ArgsEnd ==
    /\ cli.pc = "run"
    /\ cli' = [cli EXCEPT !.pc = "exit", !.status = 0]
    /\ UNCHANGED config
    /\ ArgsFrame

ArgsNext ==
    \/ OptHelp \/ OptP \/ OptB \/ OptF \/ OptH \/ OptD \/ OptN \/ OptS
    \/ OptW \/ OptV \/ OptI \/ OptL
    \/ CombinedB \/ CombinedF \/ CombinedH \/ CombinedN
    \/ FileArg \/ InvalidOption \/ Main \/ ArgsLine \/ ArgsEnd

SpecArgs == ArgsInit /\ [][ArgsNext]_vars

\* ----------------------------------------------------- reading the history
Lines == 1..Len(input)

\* The line just read.  Every prefix of a stream is a reachable state and the
\* history only grows, so a statement about the line just read, checked in
\* every state, is a statement about every line of every stream.
JustRead == IF Len(input) = 0 THEN {} ELSE {Len(input)}

IsDelimiter(line) == line \in {header_delim, body_delim, footer_delim}

SectionNamed(line) ==
    CASE line = header_delim -> "Header"
      [] line = body_delim -> "Body"
      [] line = footer_delim -> "Footer"

Max(S) == CHOOSE x \in S : \A y \in S : y <= x

\* the last delimiter line before line i, 0 if there is none
LastDelimiter(i) == Max({0} \cup {k \in 1..(i - 1) : IsDelimiter(input[k])})

\* the section line i belongs to, read off the input alone
SectionAt(i) ==
    IF LastDelimiter(i) = 0 THEN "Body" ELSE SectionNamed(input[LastDelimiter(i)])

StyleAt(i) == SectionStyle(SectionAt(i))

\* line_number before line i
CounterBefore(i) == IF i = 1 THEN config.start_number ELSE counters[i - 1]

\* the last counter reset before line i (0: the start of the stream)
LastReset(i) ==
    Max({0} \cup {k \in 1..(i - 1) : IsDelimiter(input[k]) /\ ~config.no_renumber})

\* how many lines of the stretch of line i, up to line i, got a number
Rank(i) == Cardinality({k \in (LastReset(i) + 1)..i : decisions[k]})

\* how many lines up to line i got a number
RankOverall(i) == Cardinality({k \in 1..i : decisions[k]})

\* the position of the blank line i in its run of blank lines
RunPosition(i) == i - Max({0} \cup {k \in 1..(i - 1) : input[k] # <<>>})

Rendered(n) == format_number(n, config.number_width, config.number_format)

IsSuffix(t, s) == Len(t) <= Len(s) /\ SubSeq(s, Len(s) - Len(t) + 1, Len(s)) = t

\* --------------------------------------------------------------------- C1
\* C1: between two consecutive counter resets, the j-th line that receives
\* a number is rendered with start + (j-1)*increment, in input order; lines
\* that are not numbered consume no value.
C1_Sequence ==
    \A i \in JustRead :
        decisions[i] =>
            output[i] = Rendered(config.start_number
                                   + (Rank(i) - 1) * config.increment)
                          \o config.separator \o input[i]

\* a numbered line, an unnumbered line, then the second numbered line
C1_Witness ==
    /\ Len(input) = 3
    /\ decisions = <<TRUE, FALSE, TRUE>>
    /\ ~IsDelimiter(input[2])
    /\ counters[3] = config.start_number + 2 * config.increment

\* --------------------------------------------------------------------- C2
\* C2: after any prefix of k input lines, exactly k output lines have been
\* written: a delimiter line, a numbered line and an unnumbered line each
\* produce exactly one output line.
C2_OneOutputPerInput ==
    /\ Len(output) = Len(input)
    /\ \A i \in JustRead :
          \/ output[i] = <<>>
          \/ IsSuffix(input[i], output[i])

\* a delimiter line, a numbered line and an unnumbered line were read
C2_Witness ==
    /\ Len(input) = 3
    /\ \E i \in Lines : IsDelimiter(input[i])
    /\ \E i \in Lines : decisions[i]
    /\ \E i \in Lines : ~IsDelimiter(input[i]) /\ ~decisions[i]

\* --------------------------------------------------------------------- C3
\* C3: a line equal to the header, body or footer delimiter is never
\* numbered, whatever the styles: its output is the empty line, and it does
\* not advance line_number by the increment.
C3_DelimiterNeverNumbered ==
    \A i \in JustRead :
        IsDelimiter(input[i]) =>
            /\ output[i] = <<>>
            /\ ~decisions[i]
            /\ counters[i] \in {CounterBefore(i), config.start_number}
            /\ counters[i] # CounterBefore(i) + config.increment

\* a delimiter line read in a section of style All, leading to one of
\* style All
C3_Witness ==
    \E i \in Lines :
        /\ IsDelimiter(input[i])
        /\ StyleAt(i).kind = "All"
        /\ SectionStyle(SectionNamed(input[i])).kind = "All"
        /\ i > 1 /\ decisions[i - 1]

\* --------------------------------------------------------------------- C4
\* C4: with no_renumber = FALSE, right after any delimiter line line_number
\* is start_number, also when the delimiter names the current section, so
\* the first numbered line after any delimiter carries start_number.
C4_ResetOnDelimiter ==
    ~config.no_renumber =>
        /\ \A i \in JustRead :
              IsDelimiter(input[i]) => counters[i] = config.start_number
        /\ \A i \in JustRead :
              (decisions[i] /\ LastDelimiter(i) # 0 /\ Rank(i) = 1) =>
                  output[i] = Rendered(config.start_number)
                                \o config.separator \o input[i]

\* the counter had advanced, the delimiter of the current section came, and
\* the next line was numbered
C4_Witness ==
    /\ ~config.no_renumber
    /\ Len(input) = 3
    /\ decisions[1]
    /\ IsDelimiter(input[2])
    /\ SectionNamed(input[2]) = SectionAt(2)
    /\ decisions[3]

\* --------------------------------------------------------------------- C5
\* C5: with no_renumber = TRUE a delimiter line leaves line_number
\* unchanged, while it switches current_section and zeroes blank_count, so
\* the k-th numbered line of the stream carries start + (k-1)*increment.
C5_NoRenumber ==
    config.no_renumber =>
        /\ \A i \in JustRead :
              IsDelimiter(input[i]) => counters[i] = CounterBefore(i)
        /\ (Len(input) > 0 /\ IsDelimiter(input[Len(input)])) =>
              /\ current_section = SectionNamed(input[Len(input)])
              /\ blank_count = 0
        /\ \A i \in JustRead :
              decisions[i] =>
                  output[i] = Rendered(config.start_number
                                         + (RankOverall(i) - 1) * config.increment)
                                \o config.separator \o input[i]

\* suppression on: a numbered line, a delimiter that changes the section,
\* then the second numbered line
C5_Witness ==
    /\ config.no_renumber
    /\ Len(input) = 3
    /\ decisions[1]
    /\ IsDelimiter(input[2])
    /\ SectionNamed(input[2]) # "Body"
    /\ decisions[3]

\* --------------------------------------------------------------------- C6
\* C6: in a section of style All with grouping factor N, the k-th blank
\* line of a run of consecutive blank lines (ended by a non-blank line or a
\* delimiter line) is numbered iff k is a multiple of N; every other blank
\* line of the run is written as the width-wide blank prefix alone.
C6_BlankGrouping ==
    \A i \in JustRead :
        (input[i] = <<>> /\ StyleAt(i).kind = "All") =>
            /\ decisions[i] <=> (RunPosition(i) % config.join_blank = 0)
            /\ ~decisions[i] => output[i] = Repeat(" ", config.number_width)

\* grouping factor above 1: the first blank line of a run passed
\* unnumbered and a later one of the same run was numbered
C6_Witness ==
    /\ config.join_blank > 1
    /\ \E i \in Lines :
          /\ input[i] = <<>>
          /\ StyleAt(i).kind = "All"
          /\ decisions[i]
          /\ RunPosition(i) = config.join_blank
          /\ ~decisions[i - 1]

\* --------------------------------------------------------------------- C7
\* C7: in a section of style NonEmpty, None or Pattern an empty line is
\* never numbered, for every grouping factor and every regex (also one that
\* matches the empty string), and it leaves line_number unchanged.
C7_BlankUnnumbered ==
    \A i \in JustRead :
        (input[i] = <<>> /\ StyleAt(i).kind # "All") =>
            /\ ~decisions[i]
            /\ counters[i] = CounterBefore(i)
            /\ output[i] = Repeat(" ", config.number_width)

\* an empty line in a Pattern section whose regex matches the empty string,
\* read when blank_count reaches the grouping factor
C7_Witness ==
    \E i \in Lines :
        /\ input[i] = <<>>
        /\ StyleAt(i).kind = "Pattern"
        /\ is_match(StyleAt(i).re, <<>>)
        /\ RunPosition(i) = config.join_blank
        /\ CounterBefore(i) # config.start_number

\* --------------------------------------------------------------------- C8
\* C8 as stated: in a section of style Pattern(regex) every non-delimiter
\* line receives a number iff the regex matches the line's text.
C8_Original ==
    \A i \in JustRead :
        (StyleAt(i).kind = "Pattern" /\ ~IsDelimiter(input[i])) =>
            (decisions[i] <=> is_match(StyleAt(i).re, input[i]))

\* C8 amended: in a section of style Pattern(regex) every non-empty
\* non-delimiter line receives a number iff the regex matches its text
\* (unanchored); an empty line receives none even when the regex matches
\* the empty string.  Lines without a number are written with blank
\* padding and the numbered ones are numbered in sequence.
C8_PatternNonEmpty ==
    \A i \in JustRead :
        (StyleAt(i).kind = "Pattern" /\ ~IsDelimiter(input[i])) =>
            /\ decisions[i] <=> (input[i] # <<>> /\ is_match(StyleAt(i).re, input[i]))
            /\ ~decisions[i] => output[i] = Repeat(" ", config.number_width) \o input[i]
            /\ decisions[i] =>
                  output[i] = Rendered(config.start_number
                                         + (Rank(i) - 1) * config.increment)
                                \o config.separator \o input[i]

\* one Pattern section saw a matching line, a non-matching line and an
\* empty line that its regex matches
C8_Witness ==
    /\ Len(input) = 3
    /\ \A i \in Lines : StyleAt(i).kind = "Pattern" /\ StyleAt(i) = StyleAt(1)
    /\ \E i \in Lines : decisions[i] /\ is_match(StyleAt(i).re, input[i])
    /\ \E i \in Lines : input[i] # <<>> /\ ~is_match(StyleAt(i).re, input[i])
    /\ \E i \in Lines : input[i] = <<>> /\ is_match(StyleAt(i).re, input[i])

\* --------------------------------------------------------------------- C9
\* C9: for every non-delimiter line the output is rendered(line_number) +
\* separator + text when the line is numbered and width spaces + text, with
\* no separator, when it is not; the text is the suffix of the output.
C9_OutputShape ==
    \A i \in JustRead :
        ~IsDelimiter(input[i]) =>
            /\ output[i] = IF decisions[i]
                           THEN Rendered(CounterBefore(i)) \o config.separator \o input[i]
                           ELSE Repeat(" ", config.number_width) \o input[i]
            /\ IsSuffix(input[i], output[i])
            /\ Len(output[i]) = Len(input[i]) + (IF decisions[i]
                   THEN Len(Rendered(CounterBefore(i))) + Len(config.separator)
                   ELSE config.number_width)

\* a numbered and an unnumbered non-empty line under a separator and a
\* width that are not the defaults
C9_Witness ==
    /\ config.separator # DefaultConfig.separator
    /\ config.number_width # DefaultConfig.number_width
    /\ \E i \in Lines : decisions[i] /\ input[i] # <<>>
    /\ \E i \in Lines : ~decisions[i] /\ input[i] # <<>> /\ ~IsDelimiter(input[i])

\* -------------------------------------------------------------------- C10
NaturalLength(num) == Len(Display(num))

Larger(a, b) == IF a >= b THEN a ELSE b

Called == fmt_result # <<>>

\* C10 as stated: format_number returns a string of length max(width,
\* natural length) that holds the number's decimal text untruncated; Left
\* pads with trailing spaces, Right with leading spaces and RightZero with
\* leading zeros.
C10_Original ==
    Called =>
        LET text == Display(fmt_call.num)
            pad == fmt_call.width - Len(text)
        IN /\ Len(fmt_result) = Larger(fmt_call.width, NaturalLength(fmt_call.num))
           /\ fmt_call.format = "Left" => fmt_result = text \o Repeat(" ", pad)
           /\ fmt_call.format = "Right" => fmt_result = Repeat(" ", pad) \o text
           /\ fmt_call.format = "RightZero" => fmt_result = Repeat("0", pad) \o text

\* C10 amended: format_number returns a string of length max(width, natural
\* length); Left pads the decimal text with trailing spaces, Right with
\* leading spaces; RightZero pads with zeros put between the minus sign, if
\* any, and the digits, so they lead only for a number that is not
\* negative.  No digit is dropped and a number wider than width is not
\* padded.
C10_FormatNumber ==
    Called =>
        LET text == Display(fmt_call.num)
            pad == fmt_call.width - Len(text)
            zeros == Repeat("0", pad)
        IN /\ Len(fmt_result) = Larger(fmt_call.width, NaturalLength(fmt_call.num))
           /\ fmt_call.format = "Left" => fmt_result = text \o Repeat(" ", pad)
           /\ fmt_call.format = "Right" => fmt_result = Repeat(" ", pad) \o text
           /\ fmt_call.format = "RightZero" =>
                 fmt_result = IF fmt_call.num < 0
                              THEN <<"-">> \o zeros \o Tail(text)
                              ELSE zeros \o text
           /\ pad <= 0 => fmt_result = text

\* a negative number narrower than the field, zero-padded
C10_Witness ==
    /\ Called
    /\ fmt_call.format = "RightZero"
    /\ fmt_call.num < 0
    /\ NaturalLength(fmt_call.num) < fmt_call.width

\* -------------------------------------------------------------------- C11
\* C11: every output write failure other than a broken pipe, also one that
\* occurs when the buffered output is flushed at the end of the stream,
\* ends the process with a diagnostic and exit status 1, so that exit
\* status 0 without a broken pipe implies that every output line was
\* delivered; a broken pipe ends the process with no diagnostic and
\* status 0.
C11_WriteFailuresReported ==
    (io.pc = "exited" /\ ~io.read_failed) =>
        /\ io.failed = "Other" => (io.status = 1 /\ io.diagnostic)
        /\ (io.status = 0 /\ io.failed # "BrokenPipe") =>
              io.delivered = io.written
        /\ io.failed = "BrokenPipe" => (io.status = 0 /\ ~io.diagnostic)

\* -------------------------------------------------------------------- C12
\* the style configured for a section
ConfiguredStyle(section) ==
    IF section = "Header" THEN config.header_style
    ELSE IF section = "Footer" THEN config.footer_style
    ELSE config.body_style

\* a step that reads a line that is no delimiter
ReadsText ==
    /\ Len(input') = Len(input) + 1
    /\ ~IsDelimiter(input'[Len(input')])

\* C12: current_section is always the section named by the most recent
\* delimiter line (Body before the first one), the style applied to a line
\* that is no delimiter is the configured style of that section, and
\* reading such a line never changes current_section.
C12_Now ==
    /\ current_section = SectionAt(Len(input) + 1)
    /\ \A i \in JustRead :
          ~IsDelimiter(input[i]) =>
              /\ input[i] # <<>> =>
                    (decisions[i] <=> should_number(input[i], ConfiguredStyle(SectionAt(i))))
              /\ input[i] = <<>> =>
                    (decisions[i] => ConfiguredStyle(SectionAt(i)).kind = "All")

C12_SectionTracking ==
    /\ []C12_Now
    /\ [][ReadsText => current_section' = current_section]_vars

\* after a header delimiter a line got the decision of the header style,
\* not the one the body style would give, and the section is still Header
C12_Witness ==
    /\ Len(input) = 3
    /\ input[1] = header_delim
    /\ ~IsDelimiter(input[2]) /\ input[2] # <<>>
    /\ decisions[2] # should_number(input[2], config.body_style)
    /\ ~IsDelimiter(input[3])
    /\ current_section = "Header"

\* -------------------------------------------------------------------- C13
\* C13: every per-line step changes line_number in exactly one of three
\* ways: it grows by increment, exactly when the line is numbered; it is
\* set to start_number, exactly when the line is a delimiter and
\* no_renumber is off; it stays, for every other line.
C13_CounterChanges ==
    /\ Len(input) = 0 => line_number = config.start_number
    /\ \A i \in JustRead :
          LET resets == IsDelimiter(input[i]) /\ ~config.no_renumber
          IN /\ line_number = counters[i]
             /\ ~(decisions[i] /\ resets)
             /\ decisions[i] => counters[i] = CounterBefore(i) + config.increment
             /\ resets => counters[i] = config.start_number
             /\ (~decisions[i] /\ ~resets) => counters[i] = CounterBefore(i)

\* the three ways in one stream: a numbered line, a line without a number
\* that leaves the advanced counter alone, a delimiter that resets it
C13_Witness ==
    /\ Len(input) = 3
    /\ decisions[1]
    /\ ~decisions[2] /\ ~IsDelimiter(input[2])
    /\ counters[2] = config.start_number + config.increment
    /\ IsDelimiter(input[3])
    /\ ~config.no_renumber
    /\ line_number = config.start_number

\* -------------------------------------------------------------------- C15
\* the last line that ended a count of blank lines: a line with text (a
\* delimiter is one) or a numbered blank line; 0 if there is none
LastBreak == Max({0} \cup {k \in Lines : input[k] # <<>> \/ decisions[k]})

\* C15: after every line blank_count is the number of consecutive blank
\* lines read since the most recent non-blank line, delimiter line or
\* numbered blank line (or the start); it is 0 after a non-blank line and
\* after a delimiter line, and below join_blank while the style of the
\* current section is All.
C15_BlankCount ==
    /\ blank_count = Len(input) - LastBreak
    /\ \A k \in (LastBreak + 1)..Len(input) : input[k] = <<>>
    /\ \A i \in JustRead : input[i] # <<>> => blank_count = 0
    /\ SectionStyle(current_section).kind = "All" =>
          blank_count < config.join_blank

\* two blank lines counted in a section that numbers none, then a delimiter
\* into a section of style All
C15_Witness ==
    /\ Len(input) = 3
    /\ input[1] = <<>> /\ input[2] = <<>>
    /\ counters[2] = config.start_number
    /\ config.body_style.kind # "All"
    /\ IsDelimiter(input[3])
    /\ SectionStyle(current_section).kind = "All"
    /\ blank_count = 0

\* -------------------------------------------------------------------- C14
\* the orders in which a line can be compared with the three delimiters
Orders ==
    { o \in Sections \X Sections \X Sections :
        o[1] # o[2] /\ o[1] # o[3] /\ o[2] # o[3] }

RECURSIVE Shared(_, _)
Shared(s, t) ==
    IF s = <<>> \/ t = <<>> \/ Head(s) # Head(t) THEN 0
    ELSE 1 + Shared(Tail(s), Tail(t))

\* C16: one forward pass without lookahead: two streams that share their
\* first k lines, under one configuration, get the same first k output
\* lines, and the i-th output line is the one produced for the i-th input
\* line.
C16_NoLookahead ==
    /\ Len(output) = Len(input)
    /\ \A i \in Lines :
          IF IsDelimiter(input[i]) THEN output[i] = <<>>
          ELSE IsSuffix(input[i], output[i]) /\ output[i] # <<>>
    /\ earlier.pc = "second" =>
          \A i \in 1..Shared(earlier.input, input) : output[i] = earlier.output[i]

\* the second stream shares two lines with the first, a numbered one among
\* them, and then differs from it
C16_Witness ==
    /\ earlier.pc = "second"
    /\ Len(earlier.input) = 3 /\ Len(input) = 3
    /\ Shared(earlier.input, input) = 2
    /\ decisions[2]
    /\ output[3] # earlier.output[3]

\* -------------------------------------------------------------------- C17
\* what a configuration that reaches number_lines satisfies
WellConfigured ==
    /\ config.number_width > 0 /\ config.join_blank > 0
    /\ Len(config.section_delimiter) = 2
    /\ config.number_format \in {"Left", "Right", "RightZero"}
    /\ \A st \in {config.header_style, config.body_style, config.footer_style} :
          /\ st.kind \in {"All", "NonEmpty", "None", "Pattern"}
          /\ \A k \in 1..Len(st.re) :
                st.re[k] = "*" => k > 1 /\ st.re[k - 1] # "|"

C17_Now ==
    /\ cli.error \in ConfigErrors =>
          cli.pc = "exit" /\ cli.status = 1 /\ input = <<>> /\ output = <<>>
    /\ cli.pc = "run" \/ input # <<>> => cli.error = "" /\ WellConfigured

\* C17: a configuration error ends the process with status 1 before a line
\* is read or written, and none arises once line processing has started: a
\* configuration that reaches the lines is a valid one, and no step taken
\* after that reports an error.
C17_ConfigurationErrors ==
    []C17_Now /\ [][cli.pc = "run" => cli'.error = ""]_vars

\* a bad pattern behind -f, met after the option before it was accepted
C17_Witness ==
    /\ cli.pc = "exit" /\ cli.status = 1 /\ cli.error = "regex"
    /\ cli.i > 1
    /\ input = <<>> /\ output = <<>>

====
